---- MODULE Spec2Model ----
(***************************************************************************)
(* Session lifecycle of the HLS streaming server, src/disk_mount_stable.py: *)
(* the registry active_streams guarded by streams_lock, admission           *)
(* (handle_stream_post), stop_stream_process, the launch task               *)
(* (process_stream_task), the progress poller (poll_stream_progress), the   *)
(* reaper, restart (handle_restart_stream), the handlers of heartbeat,      *)
(* is_active and progress with validate_session_id in front of them, and    *)
(* cleanup_on_shutdown.                                                     *)
(*                                                                         *)
(* Threads.  Every handler and task runs on the one asyncio event-loop      *)
(* thread and is atomic between two awaits, except where it waits for       *)
(* streams_lock: `loop` says where that thread is.  asyncio.to_thread runs  *)
(* stop_stream_process and subprocess.Popen on worker threads, which        *)
(* interleave with the loop thread at every lock acquisition.  One action   *)
(* is one critical section, or one lock-free stretch between two of them.   *)
(***************************************************************************)
EXTENDS Integers, Sequences, FiniteSets

(* ------------------------------ bounds -------------------------------- *)
\* Session identifiers 1..NumIds and content locators 1..NumLocators.
NumIds == 2
NumLocators == 2
\* Launches (process_stream_task instances, each with its process) ever created.
MaxLaunches == 3
\* Launches in the specifications that combine every kind of start and stop
\* request (re-admission of an id, preemption of an orphan, soft and hard stop).
LaunchBudget == 2
\* Segment files a session directory can hold.
MaxSegments == 1
\* The clock advances ClockStep seconds at a time, MaxTicks times.
ClockStep == 50
MaxTicks == 1
\* stop_stream_process calls that can be running on worker threads at once.
MaxWorkers == 1
\* The concurrency cap, src/disk_mount_stable.py:34 (4 there), scaled down so
\* that the cap is reached within the bounds above.
MAX_CONCURRENT_STREAMS == 1

(* ------------------------- program constants -------------------------- *)
SESSION_TIMEOUT_SECONDS == 45
PROGRESS_POLL_INTERVAL_SECONDS == 2

SessionIds == 1..NumIds
Locators == 1..NumLocators

DigitChars == <<"0", "1", "2", "3", "4", "5", "6", "7", "8", "9">>

\* Values of the session_id path parameter that are no session's id: the empty
\* text, and texts with a path separator or a parent-directory reference.
MalformedTexts == << <<>>, <<"/">>, <<".", ".">>, <<"1", "/", "2">>, <<"1", ".", ".">> >>

\* The ids a request can carry: those of the sessions, and one more id for each
\* malformed text.
MalformedIds == (NumIds + 1)..(NumIds + Len(MalformedTexts))
RequestIds == SessionIds \cup MalformedIds

\* request.match_info.get('session_id'): the text of an id
IdText(sid) == IF sid \in SessionIds THEN <<DigitChars[sid + 1]>> ELSE MalformedTexts[sid - NumIds]

\* sub in text, for two str
Contains(text, sub) ==
    \E i \in 1..(Len(text) - Len(sub) + 1) : SubSeq(text, i, i + Len(sub) - 1) = sub

\* the test for a parent-directory reference left out
InvalidSessionId_NoDots(text) == text = <<>> \/ Contains(text, <<"/">>)

\* line 472: not session_id or '/' in session_id or '..' in session_id, the
\* condition under which validate_session_id raises HTTPBadRequest
InvalidSessionId(text) ==
    text = <<>> \/ Contains(text, <<"/">>) \/ Contains(text, <<".", ".">>)
\* Form fields video_index and subtitle_index as the client sends them; NoIndex
\* is a missing subtitle_index (data.get returns None).
NoIndex == "None"
VideoIndices == {"0"}
SubtitleIndices == {NoIndex}

VARIABLES
    active_streams,  \* the registry: a dict session id -> record
    streams_lock,    \* "free", or "loop" when the event-loop thread holds it
    launches,        \* process_stream_task instances, with the process each spawned
    session_dir,     \* per session id: does STREAMS_BASE_DIR/<id> exist, segment files in it
    loop,            \* the event-loop thread: the handler it is inside, if any
    workers,         \* stop_stream_process calls running on threads of their own
    reaper,          \* reaper_task: sleeping, stopping what its sweep marked, or cancelled
    now              \* time.time()

vars == <<active_streams, streams_lock, launches, session_dir, loop, workers, reaper, now>>

(* ------------------------------ helpers -------------------------------- *)
\* 'progress_data': {}
EmptyProgress == [fetched |-> FALSE, bytesCompleted |-> 0]

\* dict.pop / del
DictPop(d, k) == [s \in (DOMAIN d) \ {k} |-> d[s]]

\* d[k] = v
DictSet(d, k, v) == [s \in (DOMAIN d) \cup {k} |-> IF s = k THEN v ELSE d[s]]

\* sum(1 for d in active_streams.values() if d.get('process_running'))
RunningCount(streams) == Cardinality({s \in DOMAIN streams : streams[s].process_running})

\* proc.poll() is None
ProcAlive(k) == k # 0 /\ launches[k].proc = "alive"

(* ------------------------ stop_stream_process -------------------------- *)
\* One call of stop_stream_process(session_id, cleanup_files): pc "pop" before
\* its locked section (lines 335-337), "finish" after it (lines 338-353);
\* has_data, process, progress_task are what the popped session_data held.
StopCall(sid, cleanup_files, origin) ==
    [sid |-> sid, cleanup_files |-> cleanup_files, origin |-> origin, pc |-> "pop",
     has_data |-> FALSE, process |-> 0, progress_task |-> 0]

NoCall == StopCall(0, FALSE, "none")

\* the record read with get() instead of pop(): it stays in the registry
PoppedStreams_Get(streams, sid) == streams

\* lines 335-337: with streams_lock: session_data = active_streams.pop(session_id)
PoppedStreams(streams, sid) == IF sid \in DOMAIN streams THEN DictPop(streams, sid) ELSE streams

StopAfterPop(streams, call) ==
    IF call.sid \in DOMAIN streams
    THEN [call EXCEPT !.pc = "finish", !.has_data = TRUE,
                      !.process = streams[call.sid].process,
                      !.progress_task = streams[call.sid].progress_task]
    ELSE [call EXCEPT !.pc = "finish"]

\* shutil.rmtree(session_dir, ignore_errors=True)
Rmtree(dirs, sid) == [dirs EXCEPT ![sid] = [exists |-> FALSE, segments |-> 0]]

\* a live process whose working directory was removed can no longer add files to
\* the directory of that name (detached is meaningful for a live process only)
Detach(ls, sid) ==
    [i \in DOMAIN ls |->
        IF ls[i].sid = sid /\ ls[i].proc = "alive" THEN [ls[i] EXCEPT !.detached = TRUE] ELSE ls[i]]

\* every process of the session killed, whether or not a record was popped
LaunchesAfterStop_KillAll(ls, call) ==
    [i \in DOMAIN ls |->
        IF ls[i].sid = call.sid /\ ls[i].proc = "alive"
        THEN [ls[i] EXCEPT !.proc = "exited", !.detached = FALSE]
        ELSE ls[i]]

\* lines 342-348: what stop_stream_process sends to a process that has not
\* exited: proc.kill(), and nothing before it
StopSignals == <<"SIGKILL">>

\* the poller ended: asyncio.Task.done()
PollerDone(l) == l.poll \in {"absent", "cancelled", "failed"}

\* lines 349-350: task.cancel() of the progress_task the popped record held,
\* unless that task is done
CancelPoller(ls, call) ==
    IF call.has_data /\ call.progress_task # 0 /\ ~PollerDone(ls[call.progress_task])
    THEN [ls EXCEPT ![call.progress_task].cancel = TRUE]
    ELSE ls

\* lines 342-348: proc.kill(); proc.wait(timeout=5), and lines 349-350.
\* lines 339-340 and 351-353: rmtree when cleanup_files.
LaunchesAfterStop(ls, call) ==
    LET killed == IF call.has_data /\ call.process # 0 /\ ls[call.process].proc = "alive"
                  THEN [ls EXCEPT ![call.process].proc = "exited",
                                  ![call.process].detached = FALSE,
                                  ![call.process].signals = @ \o StopSignals]
                  ELSE ls
        cancelled == CancelPoller(killed, call)
    IN  IF call.cleanup_files THEN Detach(cancelled, call.sid) ELSE cancelled

\* the files of the session left in place
DirsAfterStop_Keep(dirs, call) == dirs

DirsAfterStop(dirs, call) == IF call.cleanup_files THEN Rmtree(dirs, call.sid) ELSE dirs

\* "context": None
NoContext == [magnet_url |-> 0, video_index |-> NoIndex, subtitle_index |-> NoIndex]

\* the fields of a JSON response that the handlers of is_active and progress fill in
NoBody == [active |-> FALSE, context |-> NoContext, progress |-> EmptyProgress]

\* The event-loop thread: pc is the place it is at; stop is the stop_stream_process
\* call it is inside and ret the place that call returns to; op, status and body
\* are the response its handler has built.  orphaned_sid_to_clean (0 for None)
\* is the local variable of handle_stream_post, sids that of cleanup_on_shutdown.
LoopAt(pc, sid, url, vi, si, stop, ret) ==
    [pc |-> pc, sid |-> sid, magnet_url |-> url, video_index |-> vi, subtitle_index |-> si,
     stop |-> stop, ret |-> ret, next_segment_number |-> 0, op |-> "none", status |-> 0,
     body |-> NoBody, orphaned_sid_to_clean |-> 0, sids |-> {}]

IdleLoop == LoopAt("idle", 0, 0, NoIndex, NoIndex, NoCall, "idle")

\* The handler of request op for session sid has built its response and returns it.
Responding(op, sid, status) == [IdleLoop EXCEPT !.pc = "respond", !.op = op, !.sid = sid, !.status = status]

Init ==
    /\ active_streams = [s \in {} |-> 0]
    /\ streams_lock = "free"
    /\ launches = <<>>
    /\ session_dir = [s \in RequestIds |-> [exists |-> FALSE, segments |-> 0]]
    /\ loop = IdleLoop
    /\ workers = {}
    /\ reaper = [pc |-> "sleep", sessions_to_kill |-> {}]
    /\ now = 0

\* handle_stop_stream: await asyncio.to_thread(stop_stream_process, session_id, cleanup_files=hard_reset)
HandleStopStream(sid, hard) ==
    /\ loop.pc = "idle"
    /\ ~InvalidSessionId(IdText(sid))
    /\ Cardinality(workers) < MaxWorkers
    /\ StopCall(sid, hard, "request") \notin workers
    /\ workers' = workers \cup {StopCall(sid, hard, "request")}
    /\ UNCHANGED <<active_streams, streams_lock, launches, session_dir, loop, reaper, now>>

\* a worker thread inside the locked section of stop_stream_process
WorkerStopPop(w) ==
    /\ w \in workers
    /\ w.pc = "pop"
    /\ streams_lock = "free"
    /\ active_streams' = PoppedStreams(active_streams, w.sid)
    /\ workers' = (workers \ {w}) \cup {StopAfterPop(active_streams, w)}
    /\ UNCHANGED <<streams_lock, launches, session_dir, loop, reaper, now>>

\* the rest of stop_stream_process on the worker thread; the awaiting handler
\* then answers {"status": "stopped"}
WorkerStopFinish(w) ==
    /\ w \in workers
    /\ w.pc = "finish"
    /\ launches' = LaunchesAfterStop(launches, w)
    /\ session_dir' = DirsAfterStop(session_dir, w)
    /\ workers' = workers \ {w}
    /\ UNCHANGED <<active_streams, streams_lock, loop, reaper, now>>

\* stop_stream_process called on the event-loop thread itself (lines 415, 522, 570)
LoopStopPop ==
    /\ loop.pc = "stop_pop"
    /\ streams_lock = "free"
    /\ active_streams' = PoppedStreams(active_streams, loop.stop.sid)
    /\ loop' = [loop EXCEPT !.pc = "stop_finish", !.stop = StopAfterPop(active_streams, loop.stop)]
    /\ UNCHANGED <<streams_lock, launches, session_dir, workers, reaper, now>>

LoopStopFinish ==
    /\ loop.pc = "stop_finish"
    /\ launches' = LaunchesAfterStop(launches, loop.stop)
    /\ session_dir' = DirsAfterStop(session_dir, loop.stop)
    /\ loop' = IF loop.ret = "idle" THEN IdleLoop
               ELSE [loop EXCEPT !.pc = loop.ret, !.ret = "idle", !.stop = NoCall]
    /\ UNCHANGED <<active_streams, streams_lock, workers, reaper, now>>

(* ------------------------- handle_stream_post -------------------------- *)
\* the scan for an orphan of the same content left out
Orphans_None(streams, sid, url) == {}

\* line 517: a record of another session that holds the requested locator
Orphans(streams, sid, url) ==
    {s \in DOMAIN streams : streams[s].stream_context.magnet_url = url /\ s # sid}

\* the capacity check off by one: a full registry still admits
AtCapacity_Above(streams) == RunningCount(streams) > MAX_CONCURRENT_STREAMS

\* line 525
AtCapacity(streams) == RunningCount(streams) >= MAX_CONCURRENT_STREAMS

\* the record stamped with the time the server started, not the admission time
NewRecord_Unstamped(url, vi, si, t) ==
    [process |-> 0, last_seen |-> 0, process_running |-> TRUE, progress_data |-> EmptyProgress,
     progress_task |-> 0, status_message |-> "Initializing...",
     stream_context |-> [magnet_url |-> url, video_index |-> vi, subtitle_index |-> si]]

\* lines 528-530
NewRecord(url, vi, si, t) ==
    [process |-> 0, last_seen |-> t, process_running |-> TRUE, progress_data |-> EmptyProgress,
     progress_task |-> 0, status_message |-> "Initializing...",
     stream_context |-> [magnet_url |-> url, video_index |-> vi, subtitle_index |-> si]]

\* lines 509-522: the request arrives, the locked scan for an orphan of the same
\* content, and the call of stop_stream_process(orphaned_sid_to_clean, cleanup_files=True)
StartSession(sid, url, vi, si) ==
    /\ loop.pc = "idle"
    /\ ~InvalidSessionId(IdText(sid))
    /\ streams_lock = "free"
    /\ Len(launches) < MaxLaunches
    /\ IF Orphans(active_streams, sid, url) # {}
       THEN \E o \in Orphans(active_streams, sid, url) :
                loop' = [LoopAt("stop_pop", sid, url, vi, si, StopCall(o, TRUE, "loop"), "post_admit")
                            EXCEPT !.orphaned_sid_to_clean = o]
       ELSE loop' = LoopAt("post_admit", sid, url, vi, si, NoCall, "idle")
    /\ UNCHANGED <<active_streams, streams_lock, launches, session_dir, workers, reaper, now>>

\* lines 523-530: the capacity count and the insertion, one locked section
PostAdmit ==
    /\ loop.pc = "post_admit"
    /\ streams_lock = "free"
    /\ IF AtCapacity(active_streams)
       THEN /\ loop' = Responding("start", loop.sid, 503)
            /\ UNCHANGED active_streams
       ELSE /\ active_streams' = DictSet(active_streams, loop.sid,
                    NewRecord(loop.magnet_url, loop.video_index, loop.subtitle_index, now))
            /\ loop' = [loop EXCEPT !.pc = "post_tasks"]
    /\ UNCHANGED <<streams_lock, launches, session_dir, workers, reaper, now>>

\* process_stream_task(session_id, magnet_url, video_index, subtitle_index, start_byte, start_segment)
\* as created by asyncio.create_task, with the process it will spawn and the
\* signals sent to that process; and poll_stream_progress(app, session_id,
\* magnet_url), created with it: poll is the place that task is at, cancel
\* whether task.cancel() was called on it.
NewLaunch(sid, url, vi, si, start_byte, start_segment) ==
    [sid |-> sid, magnet_url |-> url, video_index |-> vi, subtitle_index |-> si,
     start_byte |-> start_byte, start_segment |-> start_segment,
     pc |-> "analyze", proc |-> "none", detached |-> FALSE, signals |-> <<>>,
     poll |-> "start", cancel |-> FALSE]

\* lines 531-536: the tasks are created, progress_task is stored, {"status": "ok"}
PostTasks ==
    /\ loop.pc = "post_tasks"
    /\ streams_lock = "free"
    /\ launches' = Append(launches,
            NewLaunch(loop.sid, loop.magnet_url, loop.video_index, loop.subtitle_index, 0, 0))
    /\ active_streams' = IF loop.sid \in DOMAIN active_streams
                         THEN [active_streams EXCEPT ![loop.sid].progress_task = Len(launches) + 1]
                         ELSE active_streams
    /\ loop' = Responding("start", loop.sid, 200)
    /\ UNCHANGED <<streams_lock, session_dir, workers, reaper, now>>

(* ------------------------- process_stream_task ------------------------- *)
\* the messages of update_status at lines 360, 401 and 414 (those of lines
\* 382-393, which come between the first two, are taken with the first)
StatusAnalyzing == "Analyzing media file with ffprobe..."
StatusStarting == "Starting stream process..."
StatusError == "Error"

\* lines 356-358, update_status: with streams_lock: if session_id in
\* active_streams: active_streams[session_id]['status_message'] = message
UpdatedStatus(streams, sid, message) ==
    IF sid \in DOMAIN streams
    THEN [streams EXCEPT ![sid].status_message = message]
    ELSE streams

\* lines 359-405, the task up to the spawn: its status updates, the analysis
\* (ffprobe on a worker thread), os.makedirs(session_dir, exist_ok=True) and
\* subprocess.Popen(command, shell=True, cwd=session_dir).  Either the process
\* now runs, or a step raised and the task is in its except clause: the
\* analysis (json.loads of the probe output), before the status update of line
\* 401 and before the directory was made, or Popen, after them.
LaunchSpawn(k, raised) ==
    /\ k \in DOMAIN launches
    /\ launches[k].pc = "analyze"
    /\ loop.pc = "idle"
    /\ streams_lock = "free"
    /\ IF raised
       THEN /\ launches' = [launches EXCEPT ![k].pc = "except"]
            /\ \E made \in BOOLEAN :
                    IF made
                    THEN /\ session_dir' = [session_dir EXCEPT ![launches[k].sid].exists = TRUE]
                         /\ active_streams' = UpdatedStatus(active_streams, launches[k].sid, StatusStarting)
                    ELSE /\ session_dir' = session_dir
                         /\ active_streams' = UpdatedStatus(active_streams, launches[k].sid, StatusAnalyzing)
       ELSE /\ launches' = [launches EXCEPT ![k].pc = "register", ![k].proc = "alive"]
            /\ session_dir' = [session_dir EXCEPT ![launches[k].sid].exists = TRUE]
            /\ active_streams' = UpdatedStatus(active_streams, launches[k].sid, StatusStarting)
    /\ UNCHANGED <<streams_lock, loop, workers, reaper, now>>

\* the handle stored whether or not the session has a record
RegisteredStreams_Insert(streams, sid, k) ==
    DictSet(streams, sid,
        IF sid \in DOMAIN streams
        THEN [streams[sid] EXCEPT !.process = k, !.process_running = TRUE]
        ELSE [process |-> k, last_seen |-> 0, process_running |-> TRUE,
              progress_data |-> EmptyProgress, progress_task |-> 0, status_message |-> "",
              stream_context |-> NoContext])

\* lines 406-410
RegisteredStreams(streams, sid, k) ==
    IF sid \in DOMAIN streams
    THEN [streams EXCEPT ![sid].process = k, ![sid].process_running = TRUE]
    ELSE streams

\* lines 406-411: the handle is stored and the flag set, if the record exists
LaunchRegister(k) ==
    /\ k \in DOMAIN launches
    /\ launches[k].pc = "register"
    /\ loop.pc = "idle"
    /\ streams_lock = "free"
    /\ active_streams' = RegisteredStreams(active_streams, launches[k].sid, k)
    /\ launches' = [launches EXCEPT ![k].pc = "done"]
    /\ UNCHANGED <<streams_lock, session_dir, loop, workers, reaper, now>>

\* lines 412-415: except Exception: update_status(f"Error: {e}");
\* stop_stream_process(session_id, cleanup_files=True)
LaunchExcept(k) ==
    /\ k \in DOMAIN launches
    /\ launches[k].pc = "except"
    /\ loop.pc = "idle"
    /\ streams_lock = "free"
    /\ active_streams' = UpdatedStatus(active_streams, launches[k].sid, StatusError)
    /\ launches' = [launches EXCEPT ![k].pc = "done"]
    /\ loop' = LoopAt("stop_pop", 0, 0, NoIndex, NoIndex, StopCall(launches[k].sid, TRUE, "loop"), "idle")
    /\ UNCHANGED <<streams_lock, session_dir, workers, reaper, now>>

(* ------------------------- the pipeline process ------------------------ *)
\* the process ends on its own (source exhausted, or the tool fails)
ProcessExit(k) ==
    /\ k \in DOMAIN launches
    /\ launches[k].proc = "alive"
    /\ launches' = [launches EXCEPT ![k].proc = "exited", ![k].detached = FALSE]
    /\ UNCHANGED <<active_streams, streams_lock, session_dir, loop, workers, reaper, now>>

\* the process writes its next segment file, segment%05d.ts, into its directory
ProcessWriteSegment(k) ==
    /\ k \in DOMAIN launches
    /\ launches[k].proc = "alive"
    /\ ~launches[k].detached
    /\ session_dir[launches[k].sid].exists
    /\ session_dir[launches[k].sid].segments < MaxSegments
    /\ session_dir' = [session_dir EXCEPT ![launches[k].sid].segments = @ + 1]
    /\ UNCHANGED <<active_streams, streams_lock, launches, loop, workers, reaper, now>>

(* ------------------------- poll_stream_progress ------------------------ *)
\* The poller of launch k is at launches[k].poll: "start" (created, not run
\* yet), "fetch" (awaiting the response, lines 438-440), "sleep" (line 443),
\* "backoff" (line 445), or ended: "absent" (the break of line 437),
\* "cancelled" (CancelledError), "failed" (any other exception).

\* what the request to the status API comes to: a 200 response with its JSON,
\* a response with another status, or an exception (timeout, connection
\* refused, a body that is not JSON)
FetchOutcomes == {"ok", "status", "raises"}

\* the snapshot a 200 response carries
FetchedProgress == [fetched |-> TRUE, bytesCompleted |-> 1]

\* the snapshot written without looking whether the session exists
PolledStreams_Insert(streams, sid) ==
    DictSet(streams, sid,
        [process |-> 0, last_seen |-> 0, process_running |-> FALSE,
         progress_data |-> FetchedProgress, progress_task |-> 0, status_message |-> "",
         stream_context |-> NoContext])

\* lines 441-442: if session_id in active_streams: active_streams[session_id]['progress_data'] = data
PolledStreams(streams, sid) ==
    IF sid \in DOMAIN streams
    THEN [streams EXCEPT ![sid].progress_data = FetchedProgress]
    ELSE streams

\* lines 436-437: if session_id not in active_streams: break
PollAfterCheck(streams, sid) == IF sid \in DOMAIN streams THEN "fetch" ELSE "absent"

\* an exception of the fetch ends the poller
PollAfterFetch_EndOnFailure(outcome) == IF outcome = "raises" THEN "failed" ELSE "sleep"

\* lines 443 and 445: the sleep after a fetch that returned, and after one that raised
PollAfterFetch(outcome) == IF outcome = "raises" THEN "backoff" ELSE "sleep"

\* the seconds the poller sleeps at each of its two sleeps (lines 443, 445)
SleepSeconds(poll) ==
    IF poll = "backoff" THEN PROGRESS_POLL_INTERVAL_SECONDS * 2 ELSE PROGRESS_POLL_INTERVAL_SECONDS

\* The poller is run for the first time, or its sleep is over: a cancelled
\* task gets CancelledError at its await (and a task cancelled before it ran
\* never runs); otherwise lines 435-438, up to the request.
PollTick(k) ==
    /\ k \in DOMAIN launches
    /\ launches[k].poll \in {"start", "sleep", "backoff"}
    /\ loop.pc = "idle"
    /\ streams_lock = "free"
    /\ launches' = [launches EXCEPT ![k].poll =
            IF launches[k].cancel THEN "cancelled"
            ELSE PollAfterCheck(active_streams, launches[k].sid)]
    /\ UNCHANGED <<active_streams, streams_lock, session_dir, loop, workers, reaper, now>>

\* The request is over (lines 438-445): CancelledError for a cancelled task;
\* otherwise the snapshot of a 200 response is written and the poller sleeps,
\* for twice as long if the request raised.
PollFetched(k, outcome) ==
    /\ k \in DOMAIN launches
    /\ launches[k].poll = "fetch"
    /\ loop.pc = "idle"
    /\ streams_lock = "free"
    /\ IF launches[k].cancel
       THEN /\ launches' = [launches EXCEPT ![k].poll = "cancelled"]
            /\ UNCHANGED active_streams
       ELSE /\ launches' = [launches EXCEPT ![k].poll = PollAfterFetch(outcome)]
            /\ active_streams' = IF outcome = "ok"
                                 THEN PolledStreams(active_streams, launches[k].sid)
                                 ELSE active_streams
    /\ UNCHANGED <<streams_lock, session_dir, loop, workers, reaper, now>>

(* --------------------------- handle_heartbeat -------------------------- *)
\* lines 598-602
Heartbeat(sid) ==
    /\ loop.pc = "idle"
    /\ ~InvalidSessionId(IdText(sid))
    /\ streams_lock = "free"
    /\ active_streams' = IF sid \in DOMAIN active_streams
                         THEN [active_streams EXCEPT ![sid].last_seen = now]
                         ELSE active_streams
    /\ loop' = Responding("heartbeat", sid, 200)
    /\ UNCHANGED <<streams_lock, launches, session_dir, workers, reaper, now>>

(* ------------------------------ reaper_task ---------------------------- *)
\* a record without a process handle taken for one whose process has exited
ObservedExited_NilToo(streams, sid) ==
    /\ streams[sid].process_running
    /\ \/ streams[sid].process = 0
       \/ launches[streams[sid].process].proc # "alive"

\* line 456: (p := data.get('process')) and p.poll() is not None and is_running
ObservedExited(streams, sid) ==
    /\ streams[sid].process # 0
    /\ launches[streams[sid].process].proc # "alive"
    /\ streams[sid].process_running

\* a scan that only reads: no flag flipped, no timestamp written
SweptStreams_NoFlip(streams, t) == streams

\* lines 453-458: the registry after the locked scan
SweptStreams(streams, t) ==
    [s \in DOMAIN streams |->
        IF ObservedExited(streams, s)
        THEN [streams[s] EXCEPT !.process_running = FALSE, !.last_seen = t]
        ELSE streams[s]]

\* the timeout counted from the sweep before: nothing is ever old enough
SessionsToKill_None(streams, t) == {}

\* the age of the heartbeat left out of the test: every running session marked
SessionsToKill_AllRunning(streams, t) ==
    {s \in DOMAIN streams : streams[s].process_running /\ ~ObservedExited(streams, s)}

\* lines 459-460: sessions_to_kill
SessionsToKill(streams, t) ==
    {s \in DOMAIN streams :
        /\ streams[s].process_running
        /\ ~ObservedExited(streams, s)
        /\ t - streams[s].last_seen > SESSION_TIMEOUT_SECONDS}

\* lines 448-463: one sweep: the locked scan, then the first
\* await asyncio.to_thread(stop_stream_process, sid, cleanup_files=True)
ReaperSweep ==
    /\ reaper.pc = "sleep"
    /\ loop.pc = "idle"
    /\ streams_lock = "free"
    /\ active_streams' = SweptStreams(active_streams, now)
    /\ IF SessionsToKill(active_streams, now) = {}
       THEN UNCHANGED <<reaper, workers>>
       ELSE \E sid \in SessionsToKill(active_streams, now) :
                /\ workers' = workers \cup {StopCall(sid, TRUE, "reaper")}
                /\ reaper' = [pc |-> "kill",
                              sessions_to_kill |-> SessionsToKill(active_streams, now) \ {sid}]
    /\ UNCHANGED <<streams_lock, launches, session_dir, loop, now>>

\* lines 461-463: the awaited stop has returned; the next one, or back to sleep
ReaperNext ==
    /\ reaper.pc = "kill"
    /\ loop.pc = "idle"
    /\ \A w \in workers : w.origin # "reaper"
    /\ IF reaper.sessions_to_kill = {}
       THEN /\ reaper' = [pc |-> "sleep", sessions_to_kill |-> {}]
            /\ UNCHANGED workers
       ELSE \E sid \in reaper.sessions_to_kill :
                /\ workers' = workers \cup {StopCall(sid, TRUE, "reaper")}
                /\ reaper' = [reaper EXCEPT !.sessions_to_kill = @ \ {sid}]
    /\ UNCHANGED <<active_streams, streams_lock, launches, session_dir, loop, now>>

(* ------------------------- handle_restart_stream ----------------------- *)
\* the name ffmpeg gives segment n: 'segment%05d.ts'
SegmentFileName(n) ==
    <<"s", "e", "g", "m", "e", "n", "t">>
    \o <<DigitChars[((n \div 10000) % 10) + 1], DigitChars[((n \div 1000) % 10) + 1],
         DigitChars[((n \div 100) % 10) + 1], DigitChars[((n \div 10) % 10) + 1],
         DigitChars[(n % 10) + 1]>>
    \o <<".", "t", "s">>

\* line 560: the segment files of a session directory
SegmentFiles(d) == {SegmentFileName(n) : n \in 0..(d.segments - 1)}

\* line 562: re.search(r'(\\d+)', f): the pattern is a backslash followed by one
\* or more letters d.  The places where a match starts; none means re.search
\* returns None.
ReSearchStarts(f) ==
    {i \in 1..(Len(f) - 1) : f[i] = "\\" /\ f[i + 1] = "d"}

\* line 562: .group(1) of None raises AttributeError, and int() of a match of
\* that pattern (it begins with a backslash) raises ValueError
SegmentScanRaises(d) ==
    d.exists /\ \E f \in SegmentFiles(d) : ReSearchStarts(f) = {} \/ ReSearchStarts(f) # {}

\* lines 547-563: the playlist and segment scan, before the lock.  With a
\* segment file present the scan raises and error_middleware answers 500;
\* otherwise next_segment_number stays 0.
RestartSession(sid) ==
    /\ loop.pc = "idle"
    /\ ~InvalidSessionId(IdText(sid))
    /\ IF SegmentScanRaises(session_dir[sid])
       THEN loop' = Responding("restart", sid, 500)
       ELSE loop' = LoopAt("restart_locked", sid, 0, NoIndex, NoIndex, NoCall, "idle")
    /\ UNCHANGED <<active_streams, streams_lock, launches, session_dir, workers, reaper, now>>

\* line 566: not session_data or not session_data.get('stream_context')
NotRestartable(streams, sid) == sid \notin DOMAIN streams

\* lines 564-570: with streams_lock held, the context check, then the call
\* stop_stream_process(session_id, cleanup_files=False), whose own
\* `with streams_lock` (line 335) waits for the lock this thread holds:
\* threading.Lock is not reentrant.  Lines 571-579 are never reached.
RestartLocked ==
    /\ loop.pc = "restart_locked"
    /\ streams_lock = "free"
    /\ IF NotRestartable(active_streams, loop.sid)
       THEN /\ loop' = Responding("restart", loop.sid, 404)
            /\ UNCHANGED streams_lock
       ELSE /\ streams_lock' = "loop"
            /\ loop' = [loop EXCEPT !.pc = "stop_pop", !.ret = "restart_insert",
                                    !.stop = StopCall(loop.sid, FALSE, "loop")]
    /\ UNCHANGED <<active_streams, launches, session_dir, workers, reaper, now>>

(* ------------------- handle_is_active, handle_progress ----------------- *)
\* active reported from the flag alone
IsActiveResponse_FlagOnly(streams, sid) ==
    [NoBody EXCEPT !.active = sid \in DOMAIN streams /\ streams[sid].process_running,
                   !.context = IF sid \in DOMAIN streams THEN streams[sid].stream_context
                               ELSE NoContext]

\* lines 582-594: response_data of handle_is_active (is_magnet, a test of the
\* locator's text, left out)
IsActiveResponse(streams, sid) ==
    [NoBody EXCEPT !.active = /\ sid \in DOMAIN streams
                              /\ streams[sid].process_running
                              /\ \/ ProcAlive(streams[sid].process)
                                 \/ streams[sid].process = 0,
                   !.context = IF sid \in DOMAIN streams THEN streams[sid].stream_context
                               ELSE NoContext]

\* lines 580-597
HandleIsActive(sid) ==
    /\ loop.pc = "idle"
    /\ ~InvalidSessionId(IdText(sid))
    /\ streams_lock = "free"
    /\ loop' = [Responding("is_active", sid, 200) EXCEPT !.body = IsActiveResponse(active_streams, sid)]
    /\ UNCHANGED <<active_streams, streams_lock, launches, session_dir, workers, reaper, now>>

\* line 606: active_streams.get(session_id, {}).get('progress_data', {})
ProgressResponse(streams, sid) ==
    [NoBody EXCEPT !.progress = IF sid \in DOMAIN streams THEN streams[sid].progress_data
                                ELSE EmptyProgress]

\* lines 604-607
HandleProgress(sid) ==
    /\ loop.pc = "idle"
    /\ ~InvalidSessionId(IdText(sid))
    /\ streams_lock = "free"
    /\ loop' = [Responding("progress", sid, 200) EXCEPT !.body = ProgressResponse(active_streams, sid)]
    /\ UNCHANGED <<active_streams, streams_lock, launches, session_dir, workers, reaper, now>>

(* ------------------------- validate_session_id ------------------------- *)
\* the requests whose handler begins with validate_session_id(session_id)
\* (lines 510, 542, 548, 581, 599, 605)
Operations == {"start", "stop", "restart", "heartbeat", "progress", "is_active"}

\* lines 471-472 and 466-470: the first statement of the handler raises
\* HTTPBadRequest, which error_middleware (it catches every Exception) answers
\* with status 500; the handler has done nothing else
RefusedRequest(op, sid) ==
    /\ loop.pc = "idle"
    /\ InvalidSessionId(IdText(sid))
    /\ loop' = Responding(op, sid, 500)
    /\ UNCHANGED <<active_streams, streams_lock, launches, session_dir, workers, reaper, now>>

(* ------------------------- cleanup_on_shutdown ------------------------- *)
\* line 622: the threads started for sids = list(active_streams.keys()), each
\* running stop_stream_process(sid, True)
ShutdownThreads(streams) == {StopCall(sid, TRUE, "shutdown") : sid \in DOMAIN streams}

\* lines 617-623: the reaper task is cancelled (the stop it may be awaiting
\* runs on, on its thread), and one thread is started for every id in the
\* registry.  The handler runs on the event-loop thread.
CleanupOnShutdown ==
    /\ loop.pc = "idle"
    /\ reaper' = [pc |-> "cancelled", sessions_to_kill |-> {}]
    /\ workers' = workers \cup ShutdownThreads(active_streams)
    /\ loop' = [IdleLoop EXCEPT !.pc = "shutdown_join", !.sids = DOMAIN active_streams]
    /\ UNCHANGED <<active_streams, streams_lock, launches, session_dir, now>>

\* line 624: for t in cleanup_threads: t.join().  The event-loop thread is
\* blocked in join until every thread has returned; then the handler returns,
\* the application closes its loop and no handler or task runs any more.
ShutdownJoined ==
    /\ loop.pc = "shutdown_join"
    /\ \A w \in workers : w.origin # "shutdown"
    /\ loop' = [loop EXCEPT !.pc = "closed"]
    /\ UNCHANGED <<active_streams, streams_lock, launches, session_dir, workers, reaper, now>>

(* ------------------------------ responses ----------------------------- *)
\* the response is sent and the event loop is free for the next handler or task
Respond ==
    /\ loop.pc = "respond"
    /\ loop' = IdleLoop
    /\ UNCHANGED <<active_streams, streams_lock, launches, session_dir, workers, reaper, now>>

(* -------------------------------- time --------------------------------- *)
Tick ==
    /\ now + ClockStep <= MaxTicks * ClockStep
    /\ now' = now + ClockStep
    /\ UNCHANGED <<active_streams, streams_lock, launches, session_dir, loop, workers, reaper>>

(* ---------------------------- specifications --------------------------- *)
\* The whole program: every request, task, thread and the clock.
Next ==
    \/ \E sid \in SessionIds, url \in Locators, vi \in VideoIndices, si \in SubtitleIndices :
            StartSession(sid, url, vi, si)
    \/ PostAdmit
    \/ PostTasks
    \/ LoopStopPop
    \/ LoopStopFinish
    \/ \E sid \in SessionIds, hard \in BOOLEAN : HandleStopStream(sid, hard)
    \/ \E w \in workers : WorkerStopPop(w)
    \/ \E w \in workers : WorkerStopFinish(w)
    \/ \E k \in 1..MaxLaunches, raised \in BOOLEAN : LaunchSpawn(k, raised)
    \/ \E k \in 1..MaxLaunches : LaunchRegister(k)
    \/ \E k \in 1..MaxLaunches : LaunchExcept(k)
    \/ \E k \in 1..MaxLaunches : ProcessExit(k)
    \/ \E k \in 1..MaxLaunches : ProcessWriteSegment(k)
    \/ \E sid \in SessionIds : Heartbeat(sid)
    \/ ReaperSweep
    \/ ReaperNext
    \/ \E sid \in SessionIds : RestartSession(sid)
    \/ RestartLocked
    \/ \E sid \in SessionIds : HandleIsActive(sid)
    \/ \E sid \in SessionIds : HandleProgress(sid)
    \/ \E op \in Operations, sid \in RequestIds : RefusedRequest(op, sid)
    \/ \E k \in 1..MaxLaunches : PollTick(k)
    \/ \E k \in 1..MaxLaunches, outcome \in FetchOutcomes : PollFetched(k, outcome)
    \/ CleanupOnShutdown
    \/ ShutdownJoined
    \/ Respond
    \/ Tick

Spec == Init /\ [][Next]_vars

\* fewer than LaunchBudget launches were created so far
WithinBudget == Len(launches) < LaunchBudget

\* Admission, stop, launch and the reaper's reconciliation of exited processes:
\* the program while no heartbeat times out, no restart is requested and no
\* launch raises.
NextLifecycle ==
    \/ \E sid \in SessionIds, url \in Locators, vi \in VideoIndices, si \in SubtitleIndices :
            WithinBudget /\ StartSession(sid, url, vi, si)
    \/ PostAdmit
    \/ PostTasks
    \/ LoopStopPop
    \/ LoopStopFinish
    \/ \E sid \in SessionIds, hard \in BOOLEAN : HandleStopStream(sid, hard)
    \/ \E w \in workers : WorkerStopPop(w)
    \/ \E w \in workers : WorkerStopFinish(w)
    \/ \E k \in 1..MaxLaunches : LaunchSpawn(k, FALSE)
    \/ \E k \in 1..MaxLaunches : LaunchRegister(k)
    \/ \E k \in 1..MaxLaunches : ProcessExit(k)
    \/ ReaperSweep
    \/ Respond

SpecLifecycle == Init /\ [][NextLifecycle]_vars

\* Sessions that each stream a content of their own (locator n for session n),
\* stopped without cleanup and started again while their launches are still
\* under way; processes exit and the reaper reconciles.
NextOvercount ==
    \/ \E sid \in SessionIds, vi \in VideoIndices, si \in SubtitleIndices :
            sid \in Locators /\ StartSession(sid, sid, vi, si)
    \/ PostAdmit
    \/ PostTasks
    \/ \E sid \in SessionIds : HandleStopStream(sid, FALSE)
    \/ \E w \in workers : WorkerStopPop(w)
    \/ \E w \in workers : WorkerStopFinish(w)
    \/ \E k \in 1..MaxLaunches : LaunchSpawn(k, FALSE)
    \/ \E k \in 1..MaxLaunches : LaunchRegister(k)
    \/ \E k \in 1..MaxLaunches : ProcessExit(k)
    \/ ReaperSweep
    \/ Respond

SpecOvercount == Init /\ [][NextOvercount]_vars

\* no launch was created for this session id or this locator so far
FreshStart(sid, url) ==
    \A k \in DOMAIN launches : launches[k].sid # sid /\ launches[k].magnet_url # url

\* The same, with every StartSession for a session id and a locator not used
\* before: admissions race with each other, never with an orphan of their own
\* content or an earlier session of their own id.
NextRace ==
    \/ \E sid \in SessionIds, url \in Locators, vi \in VideoIndices, si \in SubtitleIndices :
            FreshStart(sid, url) /\ StartSession(sid, url, vi, si)
    \/ PostAdmit
    \/ PostTasks
    \/ \E sid \in SessionIds, hard \in BOOLEAN : HandleStopStream(sid, hard)
    \/ \E w \in workers : WorkerStopPop(w)
    \/ \E w \in workers : WorkerStopFinish(w)
    \/ \E k \in 1..MaxLaunches : LaunchSpawn(k, FALSE)
    \/ \E k \in 1..MaxLaunches : LaunchRegister(k)
    \/ \E k \in 1..MaxLaunches : ProcessExit(k)
    \/ ReaperSweep
    \/ Respond

SpecRace == Init /\ [][NextRace]_vars

\* Restart requests for sessions that were each started once, while their
\* processes write segments and stop requests arrive.
NextRestart ==
    \/ \E sid \in SessionIds, url \in Locators, vi \in VideoIndices, si \in SubtitleIndices :
            FreshStart(sid, url) /\ StartSession(sid, url, vi, si)
    \/ PostAdmit
    \/ PostTasks
    \/ \E sid \in SessionIds, hard \in BOOLEAN : HandleStopStream(sid, hard)
    \/ \E w \in workers : WorkerStopPop(w)
    \/ \E w \in workers : WorkerStopFinish(w)
    \/ \E k \in 1..MaxLaunches : LaunchSpawn(k, FALSE)
    \/ \E k \in 1..MaxLaunches : LaunchRegister(k)
    \/ \E k \in 1..MaxLaunches : ProcessWriteSegment(k)
    \/ \E sid \in SessionIds : RestartSession(sid)
    \/ RestartLocked
    \/ Respond

SpecRestart == Init /\ [][NextRestart]_vars

\* What the scheduling guarantees: the event loop runs every handler and task
\* that is ready, and a worker thread that can run does.  Requests, the
\* processes and the clock are under no obligation.
LoopSteps ==
    \/ PostAdmit
    \/ PostTasks
    \/ RestartLocked
    \/ Respond
    \/ \E k \in 1..MaxLaunches : LaunchSpawn(k, FALSE)
    \/ \E k \in 1..MaxLaunches : LaunchRegister(k)

WorkerSteps ==
    \/ \E w \in workers : WorkerStopPop(w)
    \/ \E w \in workers : WorkerStopFinish(w)

FairSpecRestart == SpecRestart /\ WF_vars(LoopSteps) /\ WF_vars(WorkerSteps)

\* The reaper at work: sessions started once each, their processes, heartbeats,
\* stop requests, the clock, the sweeps and the stops the sweeps start.
NextReaper ==
    \/ \E sid \in SessionIds, url \in Locators, vi \in VideoIndices, si \in SubtitleIndices :
            FreshStart(sid, url) /\ StartSession(sid, url, vi, si)
    \/ PostAdmit
    \/ PostTasks
    \/ \E sid \in SessionIds, hard \in BOOLEAN : HandleStopStream(sid, hard)
    \/ \E w \in workers : WorkerStopPop(w)
    \/ \E w \in workers : WorkerStopFinish(w)
    \/ \E k \in 1..MaxLaunches : LaunchSpawn(k, FALSE)
    \/ \E k \in 1..MaxLaunches : LaunchRegister(k)
    \/ \E k \in 1..MaxLaunches : ProcessExit(k)
    \/ \E sid \in SessionIds : Heartbeat(sid)
    \/ ReaperSweep
    \/ ReaperNext
    \/ Respond
    \/ Tick

SpecReaper == Init /\ [][NextReaper]_vars

\* who calls stop_stream_process on a worker thread, and with which cleanup_files:
\* handle_stop_stream (line 545) with either value, the reaper (line 463) with True
StopThreadKinds == {<<FALSE, "request">>, <<TRUE, "request">>, <<TRUE, "reaper">>}

\* where such a call is and whether it has taken a record: before its locked
\* section, or after it with or without session_data
StopThreadStages == {<<"pop", FALSE>>, <<"finish", FALSE>>, <<"finish", TRUE>>}

\* the steps of the stop_stream_process calls of one kind at one stage: each
\* call runs on a thread of its own, which the operating system schedules
StopThreadSteps(sid, kind, stage) ==
    \E w \in workers :
        /\ w.sid = sid /\ w.cleanup_files = kind[1] /\ w.origin = kind[2]
        /\ w.pc = stage[1] /\ w.has_data = stage[2]
        /\ WorkerStopPop(w) \/ WorkerStopFinish(w)

\* What the scheduling guarantees to the reaper: every worker thread runs, a
\* handler that has started runs to its response, and the reaper task, resumed
\* by the return of the stop it awaits, is run by the event loop between two
\* handlers.
FairSpecReaper ==
    /\ SpecReaper
    /\ \A sid \in SessionIds, kind \in StopThreadKinds, stage \in StopThreadStages :
            WF_vars(StopThreadSteps(sid, kind, stage))
    /\ WF_vars(PostAdmit \/ PostTasks \/ Respond)
    /\ SF_vars(ReaperNext)

\* The reaper left alone with the sessions: no heartbeat, no stop request and
\* no restart arrives; sessions are started, their processes run and exit,
\* time passes and the reaper sweeps.
NextQuiet ==
    \/ \E sid \in SessionIds, url \in Locators, vi \in VideoIndices, si \in SubtitleIndices :
            FreshStart(sid, url) /\ StartSession(sid, url, vi, si)
    \/ PostAdmit
    \/ PostTasks
    \/ \E w \in workers : WorkerStopPop(w)
    \/ \E w \in workers : WorkerStopFinish(w)
    \/ \E k \in 1..MaxLaunches : LaunchSpawn(k, FALSE)
    \/ \E k \in 1..MaxLaunches : LaunchRegister(k)
    \/ \E k \in 1..MaxLaunches : ProcessExit(k)
    \/ ReaperSweep
    \/ ReaperNext
    \/ Respond
    \/ Tick

SpecQuiet == Init /\ [][NextQuiet]_vars

\* the handlers and launch tasks the event loop has to run
QuietLoopSteps ==
    \/ PostAdmit
    \/ PostTasks
    \/ Respond
    \/ \E k \in 1..MaxLaunches : LaunchSpawn(k, FALSE)
    \/ \E k \in 1..MaxLaunches : LaunchRegister(k)

\* Every thread and every task runs, the clock advances, and the reaper wakes
\* up from its sleep (line 448) and sweeps.
FairSpecQuiet ==
    /\ SpecQuiet
    /\ WF_vars(QuietLoopSteps)
    /\ WF_vars(WorkerSteps)
    /\ WF_vars(Tick)
    /\ SF_vars(ReaperSweep)
    /\ SF_vars(ReaperNext)

\* Launches that can fail: admission, stop requests and the launch tasks with
\* their except clause; a process ends only when a stop kills it.
NextFailure ==
    \/ \E sid \in SessionIds, url \in Locators, vi \in VideoIndices, si \in SubtitleIndices :
            WithinBudget /\ StartSession(sid, url, vi, si)
    \/ PostAdmit
    \/ PostTasks
    \/ LoopStopPop
    \/ LoopStopFinish
    \/ \E sid \in SessionIds, hard \in BOOLEAN : HandleStopStream(sid, hard)
    \/ \E w \in workers : WorkerStopPop(w)
    \/ \E w \in workers : WorkerStopFinish(w)
    \/ \E k \in 1..MaxLaunches, raised \in BOOLEAN : LaunchSpawn(k, raised)
    \/ \E k \in 1..MaxLaunches : LaunchRegister(k)
    \/ \E k \in 1..MaxLaunches : LaunchExcept(k)
    \/ Respond

SpecFailure == Init /\ [][NextFailure]_vars

\* The request layer: each of the six operations called with any id a request
\* can carry, for sessions started once each whose processes run and exit.
NextRequests ==
    \/ \E sid \in RequestIds, url \in Locators, vi \in VideoIndices, si \in SubtitleIndices :
            FreshStart(sid, url) /\ StartSession(sid, url, vi, si)
    \/ PostAdmit
    \/ PostTasks
    \/ \E sid \in RequestIds, hard \in BOOLEAN : HandleStopStream(sid, hard)
    \/ \E w \in workers : WorkerStopPop(w)
    \/ \E w \in workers : WorkerStopFinish(w)
    \/ \E k \in 1..MaxLaunches : LaunchSpawn(k, FALSE)
    \/ \E k \in 1..MaxLaunches : LaunchRegister(k)
    \/ \E k \in 1..MaxLaunches : ProcessExit(k)
    \/ \E sid \in RequestIds : RestartSession(sid)
    \/ RestartLocked
    \/ \E sid \in RequestIds : Heartbeat(sid)
    \/ \E sid \in RequestIds : HandleIsActive(sid)
    \/ \E sid \in RequestIds : HandleProgress(sid)
    \/ \E op \in Operations, sid \in RequestIds : RefusedRequest(op, sid)
    \/ Respond

SpecRequests == Init /\ [][NextRequests]_vars

\* The progress pollers: sessions are started (ids and locators are reused,
\* within LaunchBudget), stopped by requests and by the reaper, and each
\* session's poller ticks, fetches and writes; the launch tasks and their
\* processes stay out.
NextPoller ==
    \/ \E sid \in SessionIds, url \in Locators, vi \in VideoIndices, si \in SubtitleIndices :
            WithinBudget /\ StartSession(sid, url, vi, si)
    \/ PostAdmit
    \/ PostTasks
    \/ LoopStopPop
    \/ LoopStopFinish
    \/ \E sid \in SessionIds, hard \in BOOLEAN : HandleStopStream(sid, hard)
    \/ \E w \in workers : WorkerStopPop(w)
    \/ \E w \in workers : WorkerStopFinish(w)
    \/ \E k \in 1..MaxLaunches : PollTick(k)
    \/ \E k \in 1..MaxLaunches, outcome \in FetchOutcomes : PollFetched(k, outcome)
    \/ ReaperSweep
    \/ ReaperNext
    \/ Respond
    \/ Tick

SpecPoller == Init /\ [][NextPoller]_vars

\* the handlers the event loop has to finish
PollerLoopSteps ==
    \/ PostAdmit
    \/ PostTasks
    \/ LoopStopPop
    \/ LoopStopFinish
    \/ Respond

\* the steps of the poller of launch k
PollerSteps(k) == PollTick(k) \/ \E outcome \in FetchOutcomes : PollFetched(k, outcome)

\* What the scheduling guarantees to a poller: the event loop finishes the
\* handler it is in, and a task that is ready (its sleep is over, or its
\* request has come to an end: the request has a timeout of 10 seconds, line
\* 438) is run between two handlers, however many requests keep arriving.
FairSpecPoller ==
    /\ SpecPoller
    /\ WF_vars(PollerLoopSteps)
    /\ \A k \in 1..MaxLaunches : SF_vars(PollerSteps(k))

\* Admission when the registry is full: sessions are started with any id and
\* locator, their processes exit and the reaper's sweep reconciles them; no stop
\* request arrives and no heartbeat times out, so a record leaves the registry
\* only through the preemption of handle_stream_post.
NextBusy ==
    \/ \E sid \in SessionIds, url \in Locators, vi \in VideoIndices, si \in SubtitleIndices :
            StartSession(sid, url, vi, si)
    \/ PostAdmit
    \/ PostTasks
    \/ LoopStopPop
    \/ LoopStopFinish
    \/ \E k \in 1..MaxLaunches : LaunchSpawn(k, FALSE)
    \/ \E k \in 1..MaxLaunches : LaunchRegister(k)
    \/ \E k \in 1..MaxLaunches : ProcessExit(k)
    \/ ReaperSweep
    \/ Respond

SpecBusy == Init /\ [][NextBusy]_vars

\* Shutdown: sessions started once each, launching or with their processes
\* running, stop requests under way, and the application is shut down at any
\* time.
NextShutdown ==
    \/ \E sid \in SessionIds, url \in Locators, vi \in VideoIndices, si \in SubtitleIndices :
            FreshStart(sid, url) /\ StartSession(sid, url, vi, si)
    \/ PostAdmit
    \/ PostTasks
    \/ \E sid \in SessionIds, hard \in BOOLEAN : HandleStopStream(sid, hard)
    \/ \E w \in workers : WorkerStopPop(w)
    \/ \E w \in workers : WorkerStopFinish(w)
    \/ \E k \in 1..MaxLaunches : LaunchSpawn(k, FALSE)
    \/ \E k \in 1..MaxLaunches : LaunchRegister(k)
    \/ \E k \in 1..MaxLaunches : ProcessExit(k)
    \/ \E k \in 1..MaxLaunches : ProcessWriteSegment(k)
    \/ CleanupOnShutdown
    \/ ShutdownJoined
    \/ Respond

SpecShutdown == Init /\ [][NextShutdown]_vars

(* -------------------------------- claims ------------------------------- *)
\* the step is the locked section of handle_stream_post, lines 523-530
PostAdmitStep == loop.pc = "post_admit" /\ loop' # loop

\* that section inserted the record (the request was admitted)
AdmittedStep == PostAdmitStep /\ loop'.pc = "post_tasks"

\* the step is the locked section (pop) of the stop_stream_process call c on a worker thread
WorkerPopStep(c) == c \in workers /\ c.pc = "pop" /\ c \notin workers'

\* the step is the return of the stop_stream_process call c on a worker thread
WorkerFinishStep(c) == c \in workers /\ c.pc = "finish" /\ c \notin workers'

\* C1: in every reachable state the number of records with process_running
\* true is at most MAX_CONCURRENT_STREAMS.
C1_RunningCountWithinCap == RunningCount(active_streams) <= MAX_CONCURRENT_STREAMS

\* C2: when StartSession requests for distinct ids and distinct locators race,
\* the count and the insertion are one critical section: an admission happens
\* only from a count below the cap, it raises the count by at most one, and the
\* number of records with process_running true never exceeds the cap.
C2_RacingAdmissionsWithinCap ==
    /\ [](RunningCount(active_streams) <= MAX_CONCURRENT_STREAMS)
    /\ [][AdmittedStep =>
            /\ RunningCount(active_streams) < MAX_CONCURRENT_STREAMS
            /\ RunningCount(active_streams') <= RunningCount(active_streams) + 1]_vars

\* C2 witness: a racing StartSession for another id reaches the capacity check
\* when the last slot has just been taken.
C2_Witness ==
    /\ loop.pc = "post_admit"
    /\ loop.sid \notin DOMAIN active_streams
    /\ RunningCount(active_streams) = MAX_CONCURRENT_STREAMS

\* C3: at the cap, StartSession returns busy (503) and inserts no record; a
\* stop of a running session lowers the count by one; below the cap the
\* StartSession is admitted and its record has process_running true.
C3_BusyAtCapAdmittedBelow ==
    /\ [][PostAdmitStep =>
            IF RunningCount(active_streams) >= MAX_CONCURRENT_STREAMS
            THEN loop' = Responding("start", loop.sid, 503) /\ active_streams' = active_streams
            ELSE /\ loop'.pc = "post_tasks"
                 /\ loop.sid \in DOMAIN active_streams'
                 /\ active_streams'[loop.sid].process_running]_vars
    /\ [][\A c \in workers :
            (WorkerPopStep(c) /\ c.sid \in DOMAIN active_streams /\ active_streams[c.sid].process_running)
            => RunningCount(active_streams') = RunningCount(active_streams) - 1]_vars

\* C3 witness: StartSession for an id without a record, with a locator no
\* record uses, has been answered busy while the registry is at the cap.
C3_Witness ==
    /\ loop = Responding("start", loop.sid, 503)
    /\ loop.sid \notin DOMAIN active_streams
    /\ RunningCount(active_streams) = MAX_CONCURRENT_STREAMS

ProcsUnchanged == \A k \in DOMAIN launches : launches'[k].proc = launches[k].proc

\* C5: Stop is idempotent.  The locked section of any Stop leaves no record for
\* its id, so a second Stop in a row is a Stop on an id that is not in the
\* registry; and such a Stop, with either value of cleanup_files, leaves the
\* registry and every process as they were, in its locked section and in the
\* rest of the call, which returns without an error branch.
C5_StopIdempotent ==
    [][\A c \in workers :
        /\ WorkerPopStep(c) => c.sid \notin DOMAIN active_streams'
        /\ (WorkerPopStep(c) /\ c.sid \notin DOMAIN active_streams)
                => active_streams' = active_streams /\ ProcsUnchanged
        /\ (WorkerFinishStep(c) /\ ~c.has_data)
                => active_streams' = active_streams /\ ProcsUnchanged]_vars

\* C5 witness: a Stop found no record for a session that was launched and has
\* been removed, while a process of that session is still alive.
C5_Witness ==
    \E c \in workers :
        /\ c.pc = "finish"
        /\ ~c.has_data
        /\ c.sid \notin DOMAIN active_streams
        /\ \E k \in DOMAIN launches : launches[k].sid = c.sid /\ launches[k].proc = "alive"

\* C6: after Stop(id, withCleanup=false) on a session that has a record, the
\* record is still in the registry with process_running false and its content
\* context unchanged.
C6_SoftStopRetainsRecord ==
    [][\A c \in workers :
        (WorkerPopStep(c) /\ ~c.cleanup_files /\ c.sid \in DOMAIN active_streams)
        => /\ c.sid \in DOMAIN active_streams'
           /\ ~active_streams'[c.sid].process_running
           /\ active_streams'[c.sid].stream_context = active_streams[c.sid].stream_context]_vars

\* C7: when Stop(id, withCleanup=true) returns, the registry holds no record
\* for id and the session directory does not exist.
C7_HardStopLeavesNothing ==
    [][\A c \in workers :
        (WorkerFinishStep(c) /\ c.cleanup_files)
        => c.sid \notin DOMAIN active_streams' /\ ~session_dir'[c.sid].exists]_vars

\* C8: Restart never blocks forever: the thread that serves it is never
\* waiting for streams_lock while it holds streams_lock itself.
C8_RestartNeverBlocks == ~(streams_lock = "loop" /\ loop.pc = "stop_pop")

\* C9: a Restart for an id that has no record is answered NotRestartable (404).
C9_NoRecordAnswers404 ==
    [][(loop'.pc = "respond" /\ loop' # loop /\ loop'.op = "restart"
            /\ loop'.sid \notin DOMAIN active_streams)
        => loop'.status = 404 /\ active_streams' = active_streams]_vars

\* the launch task n+1 exists and carries the content context of the record of sid
RelaunchedWithContext(sid, n) ==
    /\ Len(launches) > n
    /\ sid \in DOMAIN active_streams
    /\ launches[n + 1].sid = sid
    /\ launches[n + 1].magnet_url = active_streams[sid].stream_context.magnet_url
    /\ launches[n + 1].video_index = active_streams[sid].stream_context.video_index
    /\ launches[n + 1].subtitle_index = active_streams[sid].stream_context.subtitle_index

RestartScanStep(sid) ==
    /\ loop.pc = "idle"
    /\ loop'.sid = sid
    /\ \/ loop'.pc = "restart_locked"
       \/ loop'.pc = "respond" /\ loop'.op = "restart"

\* C11: a Restart of a session that has a record and at least one segment on
\* disk goes on to relaunch with a chunk index that is one more than the
\* highest index on disk (segments are numbered from 0), so greater than zero.
C11_ResumePointFromDisk ==
    [][\A sid \in SessionIds :
        (RestartScanStep(sid) /\ sid \in DOMAIN active_streams /\ session_dir[sid].segments > 0)
        => /\ loop'.pc = "restart_locked"
           /\ loop'.next_segment_number = session_dir[sid].segments
           /\ loop'.next_segment_number > 0]_vars

\* the record r holds a handle of a process that has exited
HandleOfExited(r) == r.process # 0 /\ launches[r.process].proc = "exited"

\* C12: at the end of the locked section of every Reaper sweep, every record
\* with process_running true has no process handle or a process that has not
\* exited; a record that was running with an exited process when the sweep
\* began has its flag false and its last_seen equal to the sweep time.
C12_SweepReconcilesExited ==
    /\ [][ReaperSweep =>
            \A s \in DOMAIN active_streams' :
                /\ active_streams'[s].process_running => ~HandleOfExited(active_streams'[s])
                /\ (s \in DOMAIN active_streams /\ active_streams[s].process_running
                        /\ HandleOfExited(active_streams[s]))
                    => ~active_streams'[s].process_running /\ active_streams'[s].last_seen = now]_vars
    /\ [](\A s \in DOMAIN active_streams :
            SweptStreams(active_streams, now)[s].process_running
                => ~HandleOfExited(SweptStreams(active_streams, now)[s]))

\* C12 witness: after the clock advanced, a record whose process has exited has
\* its flag false and its last_seen at the current time.
C12_Witness ==
    /\ now > 0
    /\ \E s \in DOMAIN active_streams :
            /\ HandleOfExited(active_streams[s])
            /\ ~active_streams[s].process_running
            /\ active_streams[s].last_seen = now

\* C13: a Reaper sweep never flips process_running to false for a record whose
\* process handle is nil, and leaves the last_seen of such a record alone; a
\* flag that a sweep flips belongs to a record whose handle is of an exited
\* process.
C13_SweepSparesPendingLaunch ==
    [][ReaperSweep =>
        \A s \in DOMAIN active_streams :
            /\ (active_streams[s].process = 0 /\ active_streams[s].process_running)
                => /\ active_streams'[s].process_running
                   /\ active_streams'[s].last_seen = active_streams[s].last_seen
            /\ (active_streams[s].process_running /\ ~active_streams'[s].process_running)
                => HandleOfExited(active_streams[s])]_vars

\* C13 witness: a sweep has scanned a running record that has no process handle
\* (it marked it as timed out, and the stop it started has not run yet): the
\* record is still running.
C13_Witness ==
    \E w \in workers :
        /\ w.origin = "reaper"
        /\ w.pc = "pop"
        /\ w.sid \in DOMAIN active_streams
        /\ active_streams[w.sid].process = 0
        /\ active_streams[w.sid].process_running

\* the sweep's stop of session s is running or still to be started
MarkedBySweep(s) ==
    \/ \E w \in workers : w.origin = "reaper" /\ w.sid = s
    \/ s \in reaper.sessions_to_kill

\* the record of s is running, holds the handle of a live process and was last
\* seen more than SESSION_TIMEOUT_SECONDS ago
HealthyAndStalled(s) ==
    /\ s \in DOMAIN active_streams
    /\ active_streams[s].process_running
    /\ active_streams[s].process # 0
    /\ launches[active_streams[s].process].proc = "alive"
    /\ now - active_streams[s].last_seen > SESSION_TIMEOUT_SECONDS

C15_ExitedSessionEventuallyRemoved ==
    \A s \in SessionIds :
        (s \in DOMAIN active_streams /\ HandleOfExited(active_streams[s]))
            ~> (s \notin DOMAIN active_streams /\ ~session_dir[s].exists)

\* C16: no two live pipeline processes belong to the same session id, and the
\* process handle of a record is never replaced (by an admission that
\* overwrites the record, or by a launch task that stores its handle) while
\* the process it refers to is alive.
C16_OnePipelinePerId ==
    /\ [](\A a, b \in DOMAIN launches :
            (a # b /\ launches[a].sid = launches[b].sid)
                => ~(launches[a].proc = "alive" /\ launches[b].proc = "alive"))
    /\ [][\A s \in DOMAIN active_streams :
            (/\ s \in DOMAIN active_streams'
             /\ active_streams[s].process # 0
             /\ active_streams'[s].process # active_streams[s].process)
            => launches[active_streams[s].process].proc # "alive"]_vars

\* C17: no launch fails after the request it serves was answered ok.  Every
\* launch task is created by handle_stream_post, lines 531-536, which answers
\* {"status": "ok"} as soon as it has created the task; so no launch task is
\* ever in its except clause.
C17_NoLaunchFailsAfterOk ==
    \A k \in DOMAIN launches : launches[k].pc # "except"

\* the step is the return of the stop_stream_process call of the except clause
\* of a launch task (line 415)
ExceptStopFinishStep == loop.pc = "stop_finish" /\ loop.ret = "idle" /\ loop' # loop

\* C18: when the except clause of a failed launch ends, the registry holds no
\* record for the session (so none with process_running true and no process
\* handle) and the session directory does not exist.
C18_FailedLaunchLeavesNothing ==
    [][ExceptStopFinishStep =>
        /\ loop.stop.sid \notin DOMAIN active_streams'
        /\ ~session_dir'[loop.stop.sid].exists]_vars

\* C18 witness: a launch failed after the session directory was made, and its
\* except clause has taken the record of the session and is about to return.
C18_Witness ==
    /\ loop.pc = "stop_finish"
    /\ loop.ret = "idle"
    /\ loop.stop.has_data
    /\ session_dir[loop.stop.sid].exists
    /\ \E k \in DOMAIN launches :
            launches[k].sid = loop.stop.sid /\ launches[k].pc = "done" /\ launches[k].proc = "none"

\* C19: no operation holds streams_lock while it is suspended or does blocking
\* work: whenever the event-loop thread holds the lock it is not inside a call
\* of stop_stream_process (waiting for the lock, waiting for a process to exit
\* or deleting a directory).
C19_LockNeverHeldWhileBlocked ==
    streams_lock = "loop" => loop.pc \notin {"stop_pop", "stop_finish"}

\* C20: a stop that removed a record from the registry returns with the
\* directory of that session deleted.
C20_RemovalDeletesArtifacts ==
    /\ [][\A c \in workers :
            (WorkerFinishStep(c) /\ c.has_data) => ~session_dir'[c.sid].exists]_vars
    /\ [][(loop.pc = "stop_finish" /\ loop' # loop /\ loop.stop.has_data)
            => ~session_dir'[loop.stop.sid].exists]_vars

\* C21: when a Stop that found the record of a session returns, every process
\* of that session has exited: Stop never returns while a process of the
\* session is alive.
C21_StopReapsProcess ==
    [][\A c \in workers :
        (WorkerFinishStep(c) /\ c.has_data)
        => \A k \in DOMAIN launches :
                (launches[k].sid = c.sid /\ launches[k].proc = "alive")
                    => launches'[k].proc # "alive"]_vars

\* C22: Stop escalates in order: every force-kill (SIGKILL) sent to a process
\* comes after a request for graceful termination (SIGTERM) sent to it.
C22_StopEscalatesInOrder ==
    \A k \in DOMAIN launches :
        \A i \in DOMAIN launches[k].signals :
            launches[k].signals[i] = "SIGKILL"
                => \E j \in 1..(i - 1) : launches[k].signals[j] = "SIGTERM"

\* the record of s is running and was last seen at most SESSION_TIMEOUT_SECONDS ago
SeenInTime(s) ==
    /\ s \in DOMAIN active_streams
    /\ active_streams[s].process_running
    /\ now - active_streams[s].last_seen <= SESSION_TIMEOUT_SECONDS

\* C23: a running session whose last_seen is at most SESSION_TIMEOUT_SECONDS
\* old when a Reaper sweep runs is not in the sweep's sessions_to_kill, is not
\* marked and not removed by the sweep; and a stop of the Reaper for a session
\* only ever comes into being for a running record whose last_seen is older
\* than the timeout.  So a session that is seen in time at every sweep is never
\* stopped or removed by the Reaper.
C23_HeartbeatKeepsSession ==
    /\ [](\A s \in SessionIds : SeenInTime(s) => s \notin SessionsToKill(active_streams, now))
    /\ [][ReaperSweep =>
            \A s \in SessionIds :
                SeenInTime(s) => /\ s \in DOMAIN active_streams'
                                 /\ MarkedBySweep(s)' => MarkedBySweep(s)]_vars
    /\ [][\A s \in SessionIds :
            (MarkedBySweep(s)' /\ ~MarkedBySweep(s))
            => /\ s \in DOMAIN active_streams
               /\ active_streams[s].process_running
               /\ now - active_streams[s].last_seen > SESSION_TIMEOUT_SECONDS]_vars

\* C23 witness: after the clock advanced past the timeout a heartbeat has
\* refreshed a running session whose process is alive; the reaper is between
\* two sweeps and has no stop for the session.
C23_Witness ==
    /\ now > SESSION_TIMEOUT_SECONDS
    /\ loop.pc = "respond"
    /\ loop.op = "heartbeat"
    /\ SeenInTime(loop.sid)
    /\ active_streams[loop.sid].last_seen = now
    /\ ProcAlive(active_streams[loop.sid].process)
    /\ reaper.pc = "sleep"
    /\ ~MarkedBySweep(loop.sid)

\* C24: in every reachable state the number of records in the registry, running
\* or not, is at most MAX_CONCURRENT_STREAMS.
C24_RegistryWithinCap == Cardinality(DOMAIN active_streams) <= MAX_CONCURRENT_STREAMS

\* the step is handle_heartbeat, lines 598-603
HeartbeatStep == loop.pc = "idle" /\ loop'.pc = "respond" /\ loop'.op = "heartbeat"

\* C25: Heartbeat(id) for an id without a record is answered session_not_found
\* (404), not ok, and leaves the registry unchanged; Heartbeat(id) for an
\* existing record changes nothing but the last_seen of that record.
C25_HeartbeatUnknownSession ==
    [][HeartbeatStep =>
        IF loop'.sid \notin DOMAIN active_streams
        THEN loop'.status = 404 /\ active_streams' = active_streams
        ELSE /\ loop'.status = 200
             /\ active_streams' = [active_streams EXCEPT ![loop'.sid].last_seen =
                                        active_streams'[loop'.sid].last_seen]]_vars

\* the id is empty or contains '/' or '..'
Malformed(text) ==
    \/ Len(text) = 0
    \/ \E i \in DOMAIN text : text[i] = "/"
    \/ \E i \in 1..(Len(text) - 1) : text[i] = "." /\ text[i + 1] = "."

\* the step is a request with a malformed id, answered
MalformedRequestStep ==
    loop.pc = "idle" /\ loop'.pc = "respond" /\ Malformed(IdText(loop'.sid))

\* C26: every operation called with an id that is empty or contains '/' or
\* '..' is refused by validate_session_id, and the refusal leaves the registry,
\* the processes and tasks, the stop calls and the directories as they were; no
\* record, task, process, stop call or directory ever exists under such an id.
C26_MalformedIdRejected ==
    /\ [](\A sid \in RequestIds : Malformed(IdText(sid)) => InvalidSessionId(IdText(sid)))
    /\ [][MalformedRequestStep =>
            /\ loop'.status >= 400
            /\ UNCHANGED <<active_streams, streams_lock, launches, session_dir, workers, reaper>>]_vars
    /\ [](\A sid \in RequestIds :
            Malformed(IdText(sid))
            => /\ sid \notin DOMAIN active_streams
               /\ ~session_dir[sid].exists
               /\ \A w \in workers : w.sid # sid
               /\ \A k \in DOMAIN launches : launches[k].sid # sid
               /\ loop.pc # "respond" => loop.sid # sid)

\* C26 witness: a hard stop requested for the id '..' has been refused while a
\* session is in the registry with its directory on disk.
C26_Witness ==
    /\ loop.pc = "respond"
    /\ loop.op = "stop"
    /\ loop.sid \in RequestIds
    /\ IdText(loop.sid) = <<".", ".">>
    /\ \E s \in DOMAIN active_streams : session_dir[s].exists

\* the step is handle_is_active for session sid
IsActiveStep(sid) ==
    loop.pc = "idle" /\ loop'.pc = "respond" /\ loop'.op = "is_active" /\ loop'.sid = sid

\* C27: IsActive(id) never changes the registry; it returns active true exactly
\* when a record for id exists with process_running true and either no process
\* handle or a process that has not exited; and it returns the stored context
\* of the record whenever a record exists, also when active is false.
C27_IsActiveReportsLiveness ==
    /\ [][\A sid \in SessionIds :
            IsActiveStep(sid)
            => /\ active_streams' = active_streams
               /\ loop'.body.active
                    <=> /\ sid \in DOMAIN active_streams
                        /\ active_streams[sid].process_running
                        /\ \/ active_streams[sid].process = 0
                           \/ launches[active_streams[sid].process].proc # "exited"
               /\ sid \in DOMAIN active_streams
                    => loop'.body.context = active_streams[sid].stream_context]_vars
    /\ [](\A sid \in DOMAIN active_streams :
            (active_streams[sid].process_running /\ HandleOfExited(active_streams[sid]))
                => ~IsActiveResponse(active_streams, sid).active)

\* C27 witness: IsActive has answered active false, with the stored context,
\* for a record whose flag is still true while its process has exited.
C27_Witness ==
    /\ loop.pc = "respond"
    /\ loop.op = "is_active"
    /\ loop.sid \in DOMAIN active_streams
    /\ active_streams[loop.sid].process_running
    /\ HandleOfExited(active_streams[loop.sid])
    /\ ~loop.body.active
    /\ loop.body.context = active_streams[loop.sid].stream_context

\* C28: the record inserted by an admitted StartSession(id, locator, index,
\* subtitleIndex) has process_running true, no process handle, an empty
\* progress snapshot, last_seen equal to the time of the admission and the
\* request's locator, index and subtitle index as its context.
C28_AdmittedRecord ==
    /\ [][AdmittedStep =>
            /\ loop.sid \in DOMAIN active_streams'
            /\ active_streams'[loop.sid].process_running
            /\ active_streams'[loop.sid].process = 0
            /\ active_streams'[loop.sid].progress_data = EmptyProgress
            /\ active_streams'[loop.sid].last_seen = now
            /\ active_streams'[loop.sid].stream_context =
                    [magnet_url |-> loop.magnet_url, video_index |-> loop.video_index,
                     subtitle_index |-> loop.subtitle_index]]_vars
    /\ [](\A url \in Locators, vi \in VideoIndices, si \in SubtitleIndices :
            NewRecord(url, vi, si, now).last_seen = now)

\* C28 witness: a StartSession has been admitted after the clock advanced, and
\* its record is in the registry.
C28_Witness ==
    /\ loop.pc = "post_tasks"
    /\ now > 0
    /\ loop.sid \in DOMAIN active_streams
    /\ active_streams[loop.sid].last_seen = now
    /\ active_streams[loop.sid].process = 0

\* the step is a step of the poller of launch k
PollerStep(k) == k \in DOMAIN launches /\ launches'[k].poll # launches[k].poll

\* C29: a step of a poller never adds a record to the registry nor removes
\* one, and changes nothing in it but the progress snapshot of the record of
\* its own session, which exists; the write of a snapshot never inserts; a
\* poller that looks for its session on a tick and finds it absent ends; and a
\* poller that has ended never runs again.
C29_PollerNeverInserts ==
    /\ [][\A k \in 1..MaxLaunches :
            PollerStep(k)
            => /\ DOMAIN active_streams' = DOMAIN active_streams
               /\ \A s \in DOMAIN active_streams :
                    \/ active_streams'[s] = active_streams[s]
                    \/ /\ s = launches[k].sid
                       /\ active_streams'[s] =
                            [active_streams[s] EXCEPT !.progress_data = active_streams'[s].progress_data]]_vars
    /\ [](\A s \in SessionIds :
            DOMAIN PolledStreams(active_streams, s) = DOMAIN active_streams)
    /\ [][\A k \in 1..MaxLaunches :
            (/\ PollerStep(k)
             /\ launches[k].poll \in {"start", "sleep", "backoff"}
             /\ launches[k].sid \notin DOMAIN active_streams)
            => PollerDone(launches'[k])]_vars
    /\ [][\A k \in DOMAIN launches :
            PollerDone(launches[k]) => launches'[k].poll = launches[k].poll]_vars

\* C29 witness: the request of a poller that was not cancelled has come to an
\* end after its session was removed from the registry, and the poller sleeps:
\* nothing was inserted.
C29_Witness ==
    \E k \in DOMAIN launches :
        /\ launches[k].poll = "sleep"
        /\ ~launches[k].cancel
        /\ launches[k].sid \notin DOMAIN active_streams

\* C30: a fetch that fails does not end the poller: a request that raises
\* sends it to the longer sleep, from which it ticks again; a poller ends only
\* on its cancellation or when it finds its session absent, never by an
\* exception.
C30_PollerSurvivesFailures ==
    /\ [](PollAfterFetch("raises") = "backoff" /\ SleepSeconds("backoff") > SleepSeconds("sleep"))
    /\ [](\A k \in DOMAIN launches : launches[k].poll # "failed")
    /\ [][\A k \in DOMAIN launches :
            (PollerStep(k) /\ PollerDone(launches'[k]))
            => \/ launches[k].cancel
               \/ launches[k].sid \notin DOMAIN active_streams]_vars
    /\ \A k \in 1..MaxLaunches :
            (k \in DOMAIN launches /\ launches[k].poll = "backoff")
                ~> (k \in DOMAIN launches /\ launches[k].poll \in {"fetch", "absent", "cancelled"})

\* C30 witness: the request of a poller has raised while its session is in the
\* registry and nobody cancelled it: the poller is in its longer sleep.
C30_Witness ==
    \E k \in DOMAIN launches :
        /\ launches[k].poll = "backoff"
        /\ ~launches[k].cancel
        /\ launches[k].sid \in DOMAIN active_streams

\* the poller of launch k is live: it has not ended and nobody cancelled it
LivePoller(k) == ~PollerDone(launches[k]) /\ ~launches[k].cancel

\* a stop_stream_process call that has taken the record which referred to the
\* poller of launch k is on its way to cancel it
PollerHeldByStop(k) ==
    \/ \E w \in workers : w.pc = "finish" /\ w.has_data /\ w.progress_task = k
    \/ loop.pc = "stop_finish" /\ loop.stop.has_data /\ loop.stop.progress_task = k

\* C31: in every reachable state every live poller is the one the record of its
\* session refers to as progress_task (or is about to be cancelled by the stop
\* that took that record), so there is at most one per session id; and when a
\* Stop returns, no poller started for its session is live.
C31_NoOrphanPoller ==
    /\ [](\A k \in DOMAIN launches :
            LivePoller(k)
            => \/ /\ launches[k].sid \in DOMAIN active_streams
                  /\ active_streams[launches[k].sid].progress_task = k
               \/ PollerHeldByStop(k))
    /\ [][\A c \in workers :
            WorkerFinishStep(c)
            => \A k \in DOMAIN launches : launches[k].sid = c.sid => ~LivePoller(k)']_vars

\* C32: the stop that a Reaper sweep runs for an id it marked takes a record
\* out of the registry only if that record is still stalled: running, and last
\* seen more than SESSION_TIMEOUT_SECONDS ago.  A record that got a heartbeat
\* (or was admitted anew) after the scan is left alone.
C32_ReaperStopsOnlyStalled ==
    [][\A c \in workers :
        (WorkerPopStep(c) /\ c.origin = "reaper" /\ c.sid \in DOMAIN active_streams)
        => \/ c.sid \in DOMAIN active_streams'
           \/ /\ active_streams[c.sid].process_running
              /\ now - active_streams[c.sid].last_seen > SESSION_TIMEOUT_SECONDS]_vars

\* a record refers to the process of launch k as its process handle
ProcessReferenced(k) == \E s \in DOMAIN active_streams : active_streams[s].process = k

\* a stop_stream_process call that has taken the record which referred to the
\* process of launch k is on its way to kill it
ProcessHeldByStop(k) ==
    \/ \E w \in workers : w.pc = "finish" /\ w.has_data /\ w.process = k
    \/ loop.pc = "stop_finish" /\ loop.stop.has_data /\ loop.stop.process = k

\* the step is lines 406-411 of the launch task k: the task completes
LaunchCompletesStep(k) ==
    k \in DOMAIN launches /\ launches[k].pc = "register" /\ launches'[k].pc = "done"

\* C33: in every reachable state the live process of every launch task that
\* has completed is the process handle of a record (or is about to be killed
\* by the stop that took that record); and a launch task that completes when
\* the registry has no record of its session does not leave its process alive.
C33_NoProcessLeaked ==
    /\ [](\A k \in DOMAIN launches :
            (launches[k].proc = "alive" /\ launches[k].pc = "done")
            => ProcessReferenced(k) \/ ProcessHeldByStop(k))
    /\ [][\A k \in 1..MaxLaunches :
            (LaunchCompletesStep(k) /\ launches[k].sid \notin DOMAIN active_streams)
            => launches'[k].proc # "alive"]_vars

\* C34: a StartSession that is answered busy (503) has removed no record of
\* another session: the session it found holding its locator (line 517), if
\* any, still has its record when the answer is given.
C34_BusyStartHasNoEffect ==
    [][(PostAdmitStep /\ loop'.status = 503 /\ loop.orphaned_sid_to_clean # 0)
        => loop.orphaned_sid_to_clean \in DOMAIN active_streams']_vars

\* the step is a step of the launch task k
LaunchTaskStep(k) == k \in DOMAIN launches /\ launches'[k].pc # launches[k].pc

\* C35: no step of a launch task changes the set of ids in the registry: the
\* store of the process handle and the status updates write into the record of
\* the session only if there is one, so a task that finishes after the record
\* was removed inserts nothing; and every step that changes the set of ids is
\* the insertion of an admission or the locked section of a stop_stream_process
\* call (of a stop request, of the preemption in StartSession, of the Reaper,
\* or of the except clause of a failed launch).
C35_LaunchNeverReinserts ==
    /\ [][\A k \in 1..MaxLaunches :
            LaunchTaskStep(k) => DOMAIN active_streams' = DOMAIN active_streams]_vars
    /\ [](\A s \in SessionIds, k \in DOMAIN launches :
            /\ DOMAIN RegisteredStreams(active_streams, s, k) = DOMAIN active_streams
            /\ DOMAIN UpdatedStatus(active_streams, s, StatusError) = DOMAIN active_streams)
    /\ [][DOMAIN active_streams' # DOMAIN active_streams
            => \/ AdmittedStep
               \/ \E c \in workers : WorkerPopStep(c)
               \/ loop.pc = "stop_pop" /\ loop'.pc = "stop_finish"]_vars

\* C35 witness: a launch task has finished, its process alive, when the
\* registry has no record of its session: it inserted none.
C35_Witness ==
    \E k \in DOMAIN launches :
        /\ launches[k].pc = "done"
        /\ launches[k].proc = "alive"
        /\ launches[k].sid \notin DOMAIN active_streams

\* C36: a poller that writes a progress snapshot into the record of its
\* session id was started for the content locator that record holds: the
\* snapshot of a record is never written by the poller of an earlier session
\* of the same id with another locator.
C36_SnapshotOfOwnLocator ==
    [][\A k \in 1..MaxLaunches :
        (/\ PollerStep(k)
         /\ launches[k].sid \in DOMAIN active_streams
         /\ active_streams'[launches[k].sid].progress_data
                # active_streams[launches[k].sid].progress_data)
        => launches[k].magnet_url = active_streams[launches[k].sid].stream_context.magnet_url]_vars

\* handle_restart_stream has computed its resume point (lines 547-563) and has
\* not relaunched yet
RestartHoldsResumePoint == loop.pc = "restart_locked" \/ loop.ret = "restart_insert"

\* C37: from the time Restart has computed the chunk index to resume from until
\* the pipeline is relaunched with it, that index is greater than the index of
\* every chunk on disk (chunks are numbered from 0): the previous pipeline adds
\* no chunk in between.
C37_ResumePointAboveDisk ==
    RestartHoldsResumePoint => loop.next_segment_number >= session_dir[loop.sid].segments

\* C38: once cleanup_on_shutdown has returned, the registry is empty, and of
\* every session that had a record when the cleanup began (running or still
\* launching) the directory is deleted and no pipeline process is alive.
C38_ShutdownLeavesNothing ==
    loop.pc = "closed"
    => /\ DOMAIN active_streams = {}
       /\ \A s \in loop.sids :
            /\ ~session_dir[s].exists
            /\ \A k \in DOMAIN launches : launches[k].sid = s => launches[k].proc # "alive"

====
